---- MODULE Spec2Model ----
(***************************************************************************)
(* The annotation / crop editor of ClipBuilder                             *)
(* (src/frontend/src/components/ImageEditorModal.jsx) as a state machine:  *)
(* the fabric canvas (Scene), the tool state, the pointer handlers, the    *)
(* undo / redo history, the crop transaction, close / reopen / save and    *)
(* the asynchronous image decodes, restores, crop exports and saves.       *)
(***************************************************************************)
EXTENDS Integers, Sequences, FiniteSets, TLC

VARIABLES
  open,            \* prop open: the editor is shown
  saves,           \* handleSave calls suspended at the awaits of the export (fetch, blob)
  saving,          \* handleSave calls suspended at `await onSave(blob)`
  objs,            \* fabricCanvasRef.current.getObjects(): the Scene, bottom first
  refs,            \* the object refs: baseImageObjRef.obj, rectObjRef, circleObjRef,
                   \* textGuideRectRef, arrowStateRef.line/.head, cropPendingRectRef
  tool,            \* useState tool
  wiredTool,       \* the tool the current canvas was last wired for ("unwired": fresh canvas)
  undoStack,       \* undoStackRef.current
  redoStack,       \* redoStackRef.current
  canUndo,         \* useState canUndo
  canRedo,         \* useState canRedo
  isRestoring,     \* isRestoringRef.current
  restores,        \* fc.loadFromJSON calls whose callback has not run yet
  cropPending,     \* useState cropPending: <<>> (null) or <<[x, y, width, height]>>
  workingUrl,      \* useState workingUrl
  skipNextRebuild, \* skipNextRebuildRef.current
  imageLoadError,  \* useState imageLoadError (TRUE: non-empty message)
  loaded,          \* useState annotateMediaLoaded
  decode,          \* the rebuild effect's image decode: "none" or "live"
  staleDecodes,    \* decodes in flight whose effect was cleaned up (cancelled = true)
  cropExport,      \* handleApplyCrop suspended at its await: <<>> or <<record>>
  drawing,         \* isDrawingRectRef, isDrawingCircleRef, isDrawingTextBoxRef, arrowStateRef.drawing
  dragStart,       \* dragStartRef.current
  textBoxStart,    \* textBoxStartRef.current
  nextUrl,         \* number of object URLs created so far
  container,       \* clientWidth, clientHeight of the canvas wrapper (0: not laid out)
  events,          \* number of user events handled so far (bounds the run)
  last             \* the handler or completion that ran last

vars == <<open, saves, saving, objs, refs, tool, wiredTool, undoStack, redoStack, canUndo, canRedo,
          isRestoring, restores, cropPending, workingUrl, skipNextRebuild,
          imageLoadError, loaded, decode, staleDecodes, cropExport, drawing,
          dragStart, textBoxStart, nextUrl, container, events, last>>

(***************************************************************************)
(* Bounds of the model                                                     *)
(***************************************************************************)
MaxEvents == 4     \* user events handled after the session prefix
MaxSaves == 2      \* saves in flight at a time
MaxDragH == 125    \* tallest text drag of the sized sessions

(***************************************************************************)
(* Program constants                                                       *)
(***************************************************************************)
HistoryCap == 50   \* pushHistory: if (cur.length > 50) cur.shift()
MinDrag == 5       \* handleStagePointerUp (crop): w0 < 5 || h0 < 5
MaxScale == 2      \* Math.min(canvasW / imgW, canvasH / imgH, 2)
CanvasW == 1280    \* Math.max(320, cw0 || 1280), container not laid out
CanvasH == 760     \* Math.max(240, ch0 || 760)
MinCanvasW == 320
MinCanvasH == 240
ImgW0 == 800       \* intrinsic size of the step's image (Scenario A)
ImgH0 == 600
MinTextWidth == 160
DefaultFont == 28
TinyDrag == 6       \* handleStagePointerUp (text): h > 6 ? h : 28
MinFont == 14
MaxFont == 120

Tools == {"none", "select", "crop", "draw", "rect", "circle", "arrow", "text"}
ShapeTools == {"arrow", "crop", "rect", "circle", "text"}
RefNames == {"base", "rect", "circle", "guide", "line", "head", "crop"}

\* Pointer positions the stage reports (fc.getPointer): where a drag starts
\* and where the pointer moves to
DownPts == {<<4, 10>>}
MovePts == {<<4, 10>>, <<10, 4>>, <<10, 10>>}

Min2(a, b) == IF a < b THEN a ELSE b
Max2(a, b) == IF a > b THEN a ELSE b
Abs(a) == IF a < 0 THEN -a ELSE a

clamp(n, lo, hi) == Max2(lo, Min2(hi, n))

(***************************************************************************)
(* Object URLs.  A URL is <<id, width, height>>: its identity and the      *)
(* intrinsic size of the bitmap it names.                                  *)
(***************************************************************************)
NoUrl == <<0, 0, 0>>
OrigUrl == <<1, ImgW0, ImgH0>>

(***************************************************************************)
(* Scene objects                                                           *)
(***************************************************************************)
Obj(type, style, geom, flag, src, ref) ==
  [type |-> type, style |-> style, geom |-> geom, selectable |-> flag,
   evented |-> flag, src |-> src, ref |-> ref, active |-> FALSE,
   editing |-> FALSE]

\* One object of fc.toDatalessJSON(['selectable', 'evented']): the serialised
\* attributes; object identity and the canvas's active selection are not part.
Ser(o) ==
  [type |-> o.type, style |-> o.style, geom |-> o.geom,
   selectable |-> o.selectable, evented |-> o.evented, src |-> o.src]

\* JSON.stringify(fc.toDatalessJSON(['selectable', 'evented']))
Snap(os) == [i \in 1..Len(os) |-> Ser(os[i])]

\* fabric's enlivenObjects: a fresh object per serialised object
Enliven(j) ==
  [i \in 1..Len(j) |->
     [type |-> j[i].type, style |-> j[i].style, geom |-> j[i].geom,
      selectable |-> j[i].selectable, evented |-> j[i].evented, src |-> j[i].src,
      ref |-> "", active |-> FALSE, editing |-> FALSE]]

HasImage(j) == \E i \in 1..Len(j) : j[i].type = "image"

Remove(os, i) == SubSeq(os, 1, i - 1) \o SubSeq(os, i + 1, Len(os))

Filter(os, Keep(_)) == SelectSeq(os, Keep)

Untag(os, t) ==
  [i \in 1..Len(os) |-> IF os[i].ref = t THEN [os[i] EXCEPT !.ref = ""] ELSE os[i]]

IsTagged(os, t) == \E i \in 1..Len(os) : os[i].ref = t

TaggedObj(os, t) == os[CHOOSE i \in 1..Len(os) : os[i].ref = t]

\* fc.sendToBack(obj) for the object tagged t
SendToBack(os, t) ==
  IF IsTagged(os, t)
  THEN <<TaggedObj(os, t)>> \o SelectSeq(os, LAMBDA o : o.ref # t)
  ELSE os

(***************************************************************************)
(* The editor state as one record, so that a handler is the composition of *)
(* the functions it calls.                                                 *)
(***************************************************************************)
Cur ==
  [open |-> open, saves |-> saves, saving |-> saving, objs |-> objs, refs |-> refs, tool |-> tool, wiredTool |-> wiredTool,
   undoStack |-> undoStack, redoStack |-> redoStack, canUndo |-> canUndo,
   canRedo |-> canRedo, isRestoring |-> isRestoring, restores |-> restores,
   cropPending |-> cropPending, workingUrl |-> workingUrl,
   skipNextRebuild |-> skipNextRebuild, imageLoadError |-> imageLoadError,
   loaded |-> loaded, decode |-> decode, staleDecodes |-> staleDecodes,
   cropExport |-> cropExport, drawing |-> drawing, dragStart |-> dragStart,
   textBoxStart |-> textBoxStart, nextUrl |-> nextUrl, container |-> container]

Set(r) ==
  /\ open' = r.open
  /\ saves' = r.saves
  /\ saving' = r.saving
  /\ objs' = r.objs
  /\ refs' = r.refs
  /\ tool' = r.tool
  /\ wiredTool' = r.wiredTool
  /\ undoStack' = r.undoStack
  /\ redoStack' = r.redoStack
  /\ canUndo' = r.canUndo
  /\ canRedo' = r.canRedo
  /\ isRestoring' = r.isRestoring
  /\ restores' = r.restores
  /\ cropPending' = r.cropPending
  /\ workingUrl' = r.workingUrl
  /\ skipNextRebuild' = r.skipNextRebuild
  /\ imageLoadError' = r.imageLoadError
  /\ loaded' = r.loaded
  /\ decode' = r.decode
  /\ staleDecodes' = r.staleDecodes
  /\ cropExport' = r.cropExport
  /\ drawing' = r.drawing
  /\ dragStart' = r.dragStart
  /\ textBoxStart' = r.textBoxStart
  /\ nextUrl' = r.nextUrl
  /\ container' = r.container

\* A user event: a handler run to completion with the effects of its renders
\* The run may take one more user event
Budget == events < MaxEvents

User(r, name) ==
  /\ last' = name
  /\ events' = events + 1
  /\ \E v \in {r} : Set(v)

\* The completion of an asynchronous operation
Async(r, name) ==
  /\ last' = name
  /\ UNCHANGED events
  /\ \E v \in {r} : Set(v)

(***************************************************************************)
(* Object refs.  refs[t] is <<>> (null) or <<o>>, o the attributes of the  *)
(* referenced object; the object is on the canvas iff an object of objs    *)
(* carries the tag t.                                                      *)
(***************************************************************************)
NoRefs == [t \in RefNames |-> <<>>]

\* ref.current = o; fc.add(o)
AddObj(s, o) ==
  [s EXCEPT !.objs = Append(Untag(s.objs, o.ref), o),
            !.refs = IF o.ref = "" THEN @ ELSE [@ EXCEPT ![o.ref] = <<o>>]]

SetGeom(o, g) == [o EXCEPT !.geom = g]

\* ref.current.set({ left, top, width, height }) and the like
RefSetGeom(s, t, g) ==
  [s EXCEPT !.objs = [i \in 1..Len(s.objs) |->
                        IF s.objs[i].ref = t THEN SetGeom(s.objs[i], g) ELSE s.objs[i]],
            !.refs = [@ EXCEPT ![t] = IF @ = <<>> THEN <<>> ELSE <<SetGeom(@[1], g)>>]]

WithFlags(o, b) == [o EXCEPT !.selectable = b, !.evented = b]

Promote(o) == WithFlags(o, TRUE)

\* if (ref.current) ref.current.set({ selectable: true, evented: true })
RefPromote(s, t) ==
  [s EXCEPT !.objs = [i \in 1..Len(s.objs) |->
                        IF s.objs[i].ref = t THEN Promote(s.objs[i]) ELSE s.objs[i]],
            !.refs = [@ EXCEPT ![t] = IF @ = <<>> THEN <<>> ELSE <<Promote(@[1])>>]]

\* ref.current = null (the object, when on the canvas, stays there)
RefClear(s, t) ==
  [s EXCEPT !.objs = Untag(s.objs, t), !.refs = [@ EXCEPT ![t] = <<>>]]

\* fc.remove(ref.current), the ref keeping its object
RefRemove(s, t) ==
  [s EXCEPT !.objs = SelectSeq(s.objs, LAMBDA o : o.ref # t)]

\* The refs whose object is on the canvas see the canvas's writes to it
SyncRefs(s) ==
  [s EXCEPT !.refs = [t \in RefNames |->
                        IF IsTagged(s.objs, t)
                        THEN <<[TaggedObj(s.objs, t) EXCEPT !.active = FALSE]>>
                        ELSE @[t]]]

(***************************************************************************)
(* Coordinate mapper (rebuild effect, fit and centre)                      *)
(***************************************************************************)
\* Math.min(canvasW / imgW, canvasH / imgH, 2) as the fraction <<num, den>>
FitScale(cw, ch, iw, ih) ==
  LET a == IF cw * ih <= ch * iw THEN <<cw, iw>> ELSE <<ch, ih>>
  IN IF a[1] <= MaxScale * a[2] THEN a ELSE <<MaxScale, 1>>

\* The offset rounded down
FitOffset_floor(c, i, sc) ==
  Max2(0, (c * sc[2] - i * sc[1]) \div (2 * sc[2]))

\* Math.max(0, Math.round((canvas - img * scale) / 2))
FitOffset(c, i, sc) ==
  Max2(0, (c * sc[2] - i * sc[1] + sc[2]) \div (2 * sc[2]))

\* Number(fimg.width) || 1
Dim(n) == IF n = 0 THEN 1 ELSE n

\* The container of a wrapper that has not been laid out
NoLayout == <<0, 0>>

\* canvasW, canvasH: Math.max(320, cw0 || 1280), Math.max(240, ch0 || 760)
SurfaceOf(c) ==
  <<Max2(MinCanvasW, IF c[1] = 0 THEN CanvasW ELSE c[1]),
    Max2(MinCanvasH, IF c[2] = 0 THEN CanvasH ELSE c[2])>>

\* The base image object the rebuild effect places for a decoded URL on a
\* surface: geom is <<left, top, width, height, scale>>
BaseImage(url, sf) ==
  LET iw == Dim(url[2])
      ih == Dim(url[3])
      sc == FitScale(sf[1], sf[2], iw, ih)
  IN Obj("image", "image",
         <<FitOffset(sf[1], iw, sc), FitOffset(sf[2], ih, sc), iw, ih, sc>>,
         FALSE, url, "base")

(***************************************************************************)
(* History                                                                 *)
(***************************************************************************)
\* pushHistory without the comparison with the top snapshot
pushHistory_nodedup(s) ==
  IF s.isRestoring THEN s
  ELSE LET pushed == Append(s.undoStack, Snap(s.objs))
           capped == IF Len(pushed) > HistoryCap THEN Tail(pushed) ELSE pushed
       IN [s EXCEPT !.undoStack = capped,
                    !.redoStack = <<>>,
                    !.canUndo = Len(capped) > 1,
                    !.canRedo = FALSE]

\* pushHistory that leaves the redo button as it was
pushHistory_redoShown(s) ==
  IF s.isRestoring THEN s
  ELSE LET snap == Snap(s.objs)
           cur == s.undoStack
       IN IF Len(cur) > 0 /\ cur[Len(cur)] = snap THEN s
          ELSE LET pushed == Append(cur, snap)
                   capped == IF Len(pushed) > HistoryCap THEN Tail(pushed) ELSE pushed
               IN [s EXCEPT !.undoStack = capped,
                            !.redoStack = <<>>,
                            !.canUndo = Len(capped) > 1]

\* pushHistory
pushHistory(s) ==
  IF s.isRestoring THEN s
  ELSE LET snap == Snap(s.objs)
           cur == s.undoStack
       IN IF Len(cur) > 0 /\ cur[Len(cur)] = snap THEN s
          ELSE LET pushed == Append(cur, snap)
                   capped == IF Len(pushed) > HistoryCap THEN Tail(pushed) ELSE pushed
               IN [s EXCEPT !.undoStack = capped,
                            !.redoStack = <<>>,
                            !.canUndo = Len(capped) > 1,
                            !.canRedo = FALSE]

(***************************************************************************)
(* Text objects in edit mode (fabric.IText)                                *)
(***************************************************************************)
IsEditing(os) == \E i \in 1..Len(os) : os[i].editing

\* The text object in edit mode leaves it (exitEditing): it gets back the
\* `selectable` it entered with, which is false (see EnterEditing), and its
\* editing:exited handler requests a commit
exitEditing(s) ==
  IF ~IsEditing(s.objs) THEN s
  ELSE pushHistory([s EXCEPT !.objs =
                      [i \in 1..Len(@) |->
                         IF @[i].editing
                         THEN [@[i] EXCEPT !.editing = FALSE, !.selectable = FALSE]
                         ELSE @[i]]])

\* fc.discardActiveObject(): the active object is told (onDeselect), a text
\* object in edit mode leaves it
DiscardActive(s) ==
  [exitEditing(s) EXCEPT !.objs = [i \in 1..Len(@) |-> [@[i] EXCEPT !.active = FALSE]]]

\* tb.enterEditing() of the 0 ms timer handleStagePointerUp sets, for the
\* text object it has just added (the last of the canvas).  The timer runs
\* before the next event; the tool wiring effect of the render has run
\* before it, so that the text object enters edit mode non-selectable.
EnterEditing(s) ==
  [s EXCEPT !.objs = [i \in 1..Len(@) |->
                        IF i = Len(@) /\ @[i].type = "textbox"
                        THEN [@[i] EXCEPT !.editing = TRUE, !.selectable = FALSE]
                        ELSE @[i]]]

(***************************************************************************)
(* Effects                                                                 *)
(***************************************************************************)
\* Tool wiring effect: the selectable / evented policy of the active tool
ToolWiring(s) ==
  IF ~s.open THEN s
  ELSE SyncRefs([s EXCEPT !.objs = [i \in 1..Len(s.objs) |->
                                      IF s.objs[i].ref = "base" THEN s.objs[i]
                                      ELSE IF s.objs[i].editing
                                      THEN WithFlags(s.objs[i], TRUE)
                                      ELSE WithFlags(s.objs[i], s.tool = "select")],
                          !.wiredTool = s.tool])

\* setTool(t) and the effects of the render it causes
setTool(s, t) ==
  IF s.tool = t THEN s ELSE ToolWiring([s EXCEPT !.tool = t])

\* Cleanup of the rebuild effect's previous run: cancelled = true
RebuildCleanup(s) ==
  IF s.decode = "live"
  THEN [s EXCEPT !.decode = "none", !.staleDecodes = @ + 1]
  ELSE s

\* The rebuild effect without its return when no canvas element is rendered
RebuildEffect_anyway(s0) ==
  LET s == RebuildCleanup(s0)
  IN IF ~s.open THEN s
     ELSE IF s.skipNextRebuild THEN [s EXCEPT !.skipNextRebuild = FALSE]
     ELSE [s EXCEPT !.loaded = FALSE,
                    !.imageLoadError = FALSE,
                    !.objs = <<>>,
                    !.refs = [@ EXCEPT !["base"] = <<>>],
                    !.restores = [i \in 1..Len(@) |-> [@[i] EXCEPT !.cur = FALSE]],
                    !.cropExport = [i \in 1..Len(@) |-> [@[i] EXCEPT !.cur = FALSE]],
                    !.wiredTool = "unwired",
                    !.decode = "live"]

\* Rebuild effect, run because workingUrl changed
RebuildEffect(s0) ==
  LET s == RebuildCleanup(s0)
  IN IF ~s.open THEN s
     ELSE IF s.skipNextRebuild THEN [s EXCEPT !.skipNextRebuild = FALSE]
     ELSE IF s.imageLoadError THEN s      \* no canvas element is rendered
     ELSE [s EXCEPT !.loaded = FALSE,
                    !.imageLoadError = FALSE,
                    !.objs = <<>>,
                    !.refs = [@ EXCEPT !["base"] = <<>>],
                    !.restores = [i \in 1..Len(@) |-> [@[i] EXCEPT !.cur = FALSE]],
                    !.cropExport = [i \in 1..Len(@) |-> [@[i] EXCEPT !.cur = FALSE]],
                    !.wiredTool = "unwired",
                    !.decode = "live"]

\* setWorkingUrlSafe(url) and the effects of the render it causes
setWorkingUrl(s, url) ==
  IF s.workingUrl = url THEN s ELSE RebuildEffect([s EXCEPT !.workingUrl = url])

(***************************************************************************)
(* Pointer handlers of the stage                                           *)
(***************************************************************************)
\* The early returns shared by handleStagePointerDown / Move / Up
StageGuard(s) == s.cropPending = <<>> /\ s.tool \in ShapeTools

\* Geometry of the rectangle spanned by the drag origin and the pointer
DragRect(p0, p) ==
  <<Min2(p0[1], p[1]), Min2(p0[2], p[2]), Abs(p[1] - p0[1]), Abs(p[2] - p0[2])>>

\* Centre and radii of the ellipse spanned by the drag origin and the pointer
DragEllipse(p0, p) ==
  <<(p0[1] + p[1]) \div 2, (p0[2] + p[2]) \div 2,
    Max2(1, Abs(p[1] - p0[1]) \div 2), Max2(1, Abs(p[2] - p0[2]) \div 2)>>

handleStagePointerDown(s, p) ==
  IF ~StageGuard(s) THEN s
  ELSE IF s.tool = "text"
  THEN AddObj([s EXCEPT !.drawing = [@ EXCEPT !.text = TRUE], !.textBoxStart = p],
              Obj("rect", "textGuide", <<p[1], p[2], 1, 1>>, FALSE, NoUrl, "guide"))
  ELSE IF s.tool = "arrow"
  THEN AddObj(AddObj([s EXCEPT !.drawing = [@ EXCEPT !.arrow = TRUE]],
                     Obj("line", "shape", <<p[1], p[2], p[1], p[2]>>, FALSE, NoUrl, "line")),
              Obj("triangle", "shape", <<p[1], p[2], 18, 24>>, FALSE, NoUrl, "head"))
  ELSE IF s.tool = "circle"
  THEN AddObj([s EXCEPT !.drawing = [@ EXCEPT !.circle = TRUE], !.dragStart = p],
              Obj("ellipse", "shape", <<p[1], p[2], 1, 1>>, FALSE, NoUrl, "circle"))
  ELSE AddObj([s EXCEPT !.drawing = [@ EXCEPT !.rect = TRUE], !.dragStart = p],
              Obj("rect", IF s.tool = "crop" THEN "cropGuide" ELSE "shape",
                  <<p[1], p[2], 1, 1>>, FALSE, NoUrl, "rect"))

\* st.line.set({ x2, y2 }) / st.head.set({ left, top, angle })
LineTo(g, p) == <<g[1], g[2], p[1], p[2]>>
HeadAt(g, p) == <<p[1], p[2], g[3], g[4]>>

handleStagePointerMove(s, p) ==
  IF ~StageGuard(s) THEN s
  ELSE IF s.tool = "arrow"
  THEN IF ~s.drawing.arrow \/ s.refs["line"] = <<>> \/ s.refs["head"] = <<>> THEN s
       ELSE RefSetGeom(RefSetGeom(s, "line", LineTo(s.refs["line"][1].geom, p)),
                       "head", HeadAt(s.refs["head"][1].geom, p))
  ELSE IF s.tool = "circle"
  THEN IF ~s.drawing.circle \/ s.refs["circle"] = <<>> THEN s
       ELSE RefSetGeom(s, "circle", DragEllipse(s.dragStart, p))
  ELSE IF s.tool = "text"
  THEN IF ~s.drawing.text \/ s.refs["guide"] = <<>> THEN s
       ELSE RefSetGeom(s, "guide", DragRect(s.textBoxStart, p))
  ELSE IF s.drawing.rect /\ s.refs["rect"] # <<>>
  THEN RefSetGeom(s, "rect", DragRect(s.dragStart, p))
  ELSE s

\* fc.setActiveObject(o) for the last object of the canvas
ActivateLast(os) ==
  [i \in 1..Len(os) |-> [os[i] EXCEPT !.active = (i = Len(os))]]

\* The font size without the clamp
TextFontSize_unclamped(h) == IF h > TinyDrag THEN h ELSE DefaultFont

\* clamp(Math.round((h > 6 ? h : 28)), 14, 120)
TextFontSize(h) == clamp(IF h > TinyDrag THEN h ELSE DefaultFont, MinFont, MaxFont)

\* Math.max(160, w)
TextWidth(w) == Max2(MinTextWidth, w)

PointerUpArrow(s) ==
  LET s1 == RefPromote(RefPromote(s, "line"), "head")
      s2 == RefClear(RefClear([s1 EXCEPT !.drawing = [@ EXCEPT !.arrow = FALSE]],
                              "line"), "head")
  IN setTool(pushHistory(s2), "none")

\* The rect branch of handleStagePointerUp without the promotion
PointerUpRect_unpromoted(s) ==
  LET s2 == RefClear([s EXCEPT !.drawing = [@ EXCEPT !.rect = FALSE]], "rect")
  IN setTool(pushHistory(s2), "none")

PointerUpRect(s) ==
  LET s1 == RefPromote(s, "rect")
      s2 == RefClear([s1 EXCEPT !.drawing = [@ EXCEPT !.rect = FALSE]], "rect")
  IN setTool(pushHistory(s2), "none")

\* The circle branch of handleStagePointerUp without setTool('none')
PointerUpCircle_armed(s) ==
  LET s1 == RefPromote(s, "circle")
      s2 == RefClear([s1 EXCEPT !.drawing = [@ EXCEPT !.circle = FALSE]], "circle")
  IN pushHistory(s2)

PointerUpCircle(s) ==
  LET s1 == RefPromote(s, "circle")
      s2 == RefClear([s1 EXCEPT !.drawing = [@ EXCEPT !.circle = FALSE]], "circle")
  IN setTool(pushHistory(s2), "none")

PointerUpText(s) ==
  LET guide == s.refs["guide"]
      s1 == [s EXCEPT !.drawing = [@ EXCEPT !.text = FALSE]]
  IN IF guide = <<>> THEN setTool(s1, "none")
     ELSE LET g == guide[1].geom
              s2 == RefClear(RefRemove(s1, "guide"), "guide")
              tb == Obj("textbox", "shape",
                        <<g[1], g[2], TextWidth(g[3]), TextFontSize(g[4])>>,
                        TRUE, NoUrl, "")
              s3 == exitEditing([s2 EXCEPT !.objs = Append(@, tb)])
              s4 == [s3 EXCEPT !.objs = ActivateLast(@)]
          IN EnterEditing(setTool(pushHistory(s4), "none"))

PointerUpCrop(s) ==
  LET rect == s.refs["rect"]
      s1 == [s EXCEPT !.drawing = [@ EXCEPT !.rect = FALSE]]
  IN IF rect = <<>> THEN setTool(s1, "none")
     ELSE LET g == rect[1].geom
          IN IF g[3] < MinDrag \/ g[4] < MinDrag
             THEN setTool(RefClear(RefRemove(s1, "rect"), "rect"), "none")
             ELSE LET moved == [s1 EXCEPT
                                  !.objs = [i \in 1..Len(@) |->
                                              IF @[i].ref = "rect"
                                              THEN [@[i] EXCEPT !.ref = "crop"]
                                              ELSE IF @[i].ref = "crop"
                                              THEN [@[i] EXCEPT !.ref = ""]
                                              ELSE @[i]],
                                  !.refs = [@ EXCEPT
                                              !["crop"] = <<[rect[1] EXCEPT !.ref = "crop"]>>,
                                              !["rect"] = <<>>],
                                  !.cropPending =
                                    <<[x |-> g[1], y |-> g[2], width |-> g[3], height |-> g[4]]>>]
                  IN setTool(moved, "none")

handleStagePointerUp(s) ==
  IF ~StageGuard(s) THEN s
  ELSE IF s.tool = "arrow" THEN PointerUpArrow(s)
  ELSE IF s.tool = "rect" THEN PointerUpRect(s)
  ELSE IF s.tool = "circle" THEN PointerUpCircle(s)
  ELSE IF s.tool = "text" THEN PointerUpText(s)
  ELSE PointerUpCrop(s)

(***************************************************************************)
(* Undo / redo                                                             *)
(***************************************************************************)
FirstImage(os) == CHOOSE i \in 1..Len(os) : os[i].type = "image" /\
                    \A k \in 1..(i - 1) : os[k].type # "image"

\* The callback of fc.loadFromJSON(json, ...) on the canvas it was called on:
\* the canvas holds the snapshot's objects, then the base image rules and the
\* selection policy of the tool restoreFromJson closed over are applied.
\* onCanvas is FALSE when that canvas has been disposed since (its objects
\* are then not the Scene's).
RestoreCallback(s, r, onCanvas) ==
  LET os0 == Enliven(r.json)
      hasImg == HasImage(r.json)
      k == FirstImage(os0)
      base == [os0[k] EXCEPT !.selectable = FALSE, !.evented = FALSE, !.ref = "base"]
      os1 == IF hasImg
             THEN SendToBack([i \in 1..Len(os0) |-> IF i = k THEN base ELSE os0[i]],
                             "base")
             ELSE os0
      os2 == [i \in 1..Len(os1) |->
                IF os1[i].ref = "base" THEN os1[i]
                ELSE WithFlags(os1[i], r.tool = "select")]
      s1 == [s EXCEPT !.objs = IF onCanvas THEN os2
                               ELSE IF hasImg THEN Untag(@, "base") ELSE @,
                      !.refs = IF hasImg THEN [@ EXCEPT !["base"] = <<base>>] ELSE @]
      s2 == IF hasImg /\ base.src # NoUrl
            THEN [s1 EXCEPT !.skipNextRebuild = TRUE]
            ELSE s1
      s3 == [s2 EXCEPT !.isRestoring = FALSE,
                       !.canUndo = Len(s.undoStack) > 1,
                       !.canRedo = Len(s.redoStack) > 0]
  IN IF hasImg /\ base.src # NoUrl THEN setWorkingUrl(s3, base.src) ELSE s3

\* restoreFromJson: a snapshot without images is enlivened synchronously,
\* one with images when its images have loaded
restoreFromJson(s, json) ==
  LET r == [json |-> json, tool |-> s.tool, cur |-> TRUE]
      s1 == [s EXCEPT !.isRestoring = TRUE]
  IN IF HasImage(json)
     THEN [s1 EXCEPT !.restores = Append(@, r)]
     ELSE RestoreCallback(s1, r, TRUE)

Front(q) == SubSeq(q, 1, Len(q) - 1)
Last(q) == q[Len(q)]

\* handleUndo guarded by an empty stack only: the lone entry is popped too
handleUndo_last(s) ==
  IF Len(s.undoStack) = 0 THEN s
  ELSE LET cur == Front(s.undoStack)
           redo == Append(s.redoStack, Last(s.undoStack))
           s0 == [s EXCEPT !.undoStack = cur, !.redoStack = redo]
           s1 == IF cur = <<>> THEN s0 ELSE restoreFromJson(s0, Last(cur))
       IN [s1 EXCEPT !.canUndo = Len(cur) > 1, !.canRedo = Len(redo) > 0]

\* handleUndo dropping the snapshot it pops
handleUndo_drop(s) ==
  IF Len(s.undoStack) <= 1 THEN s
  ELSE LET cur == Front(s.undoStack)
           s1 == restoreFromJson([s EXCEPT !.undoStack = cur], Last(cur))
       IN [s1 EXCEPT !.canUndo = Len(cur) > 1, !.canRedo = Len(s.redoStack) > 0]

handleUndo(s) ==
  IF Len(s.undoStack) <= 1 THEN s
  ELSE LET cur == Front(s.undoStack)
           redo == Append(s.redoStack, Last(s.undoStack))
           s1 == restoreFromJson([s EXCEPT !.undoStack = cur, !.redoStack = redo],
                                 Last(cur))
       IN [s1 EXCEPT !.canUndo = Len(cur) > 1, !.canRedo = Len(redo) > 0]

\* handleRedo leaving the redone snapshot on the redo stack
handleRedo_keep(s) ==
  IF Len(s.redoStack) = 0 THEN s
  ELSE LET next == Last(s.redoStack)
           cur == Append(s.undoStack, next)
           s1 == restoreFromJson([s EXCEPT !.undoStack = cur], next)
       IN [s1 EXCEPT !.canUndo = Len(cur) > 1, !.canRedo = TRUE]

\* handleRedo taking the oldest undone snapshot instead of the latest
handleRedo_oldest(s) ==
  IF Len(s.redoStack) = 0 THEN s
  ELSE LET next == Head(s.redoStack)
           redo == Tail(s.redoStack)
           cur == Append(s.undoStack, next)
           s1 == restoreFromJson([s EXCEPT !.undoStack = cur, !.redoStack = redo], next)
       IN [s1 EXCEPT !.canUndo = Len(cur) > 1, !.canRedo = Len(redo) > 0]

handleRedo(s) ==
  IF Len(s.redoStack) = 0 THEN s
  ELSE LET next == Last(s.redoStack)
           redo == Front(s.redoStack)
           cur == Append(s.undoStack, next)
           s1 == restoreFromJson([s EXCEPT !.undoStack = cur, !.redoStack = redo], next)
       IN [s1 EXCEPT !.canUndo = Len(cur) > 1, !.canRedo = Len(redo) > 0]

(***************************************************************************)
(* Remove / clear                                                          *)
(***************************************************************************)
\* fc.discardActiveObject()
Discard(os) == [i \in 1..Len(os) |-> [os[i] EXCEPT !.active = FALSE]]

removeSelected(s) ==
  pushHistory([s EXCEPT !.objs =
                 Discard(SelectSeq(@, LAMBDA o : ~o.active \/ o.ref = "base"))])

\* The objects of os that are the base image or come after position k
KeptAfter(os, k) ==
  LET idx == SelectSeq([i \in 1..Len(os) |-> i], LAMBDA i : os[i].ref = "base" \/ i > k)
  IN [j \in 1..Len(idx) |-> os[idx[j]]]

\* The objects are removed in canvas order.  Removing the active object
\* discards it: a text object in edit mode leaves it at that moment, and its
\* editing:exited handler requests a commit of the canvas as it is then.
clearAll(s) ==
  LET k  == CHOOSE i \in 1..Len(s.objs) : s.objs[i].editing
      s1 == IF IsEditing(s.objs)
            THEN pushHistory([s EXCEPT !.objs = Discard(KeptAfter(@, k))])
            ELSE s
  IN pushHistory([s1 EXCEPT !.objs = Discard(SelectSeq(@, LAMBDA o : o.ref = "base"))])

(***************************************************************************)
(* Crop transaction                                                        *)
(***************************************************************************)
handleCancelCrop(s) ==
  RefClear(RefRemove([s EXCEPT !.cropPending = <<>>], "crop"), "crop")

\* The rectangle handleApplyCrop passes to cropImageToBlob
ClampedArea(pending, cw, ch) ==
  LET x == clamp(pending.x, 0, Max2(0, cw - 1))
      y == clamp(pending.y, 0, Max2(0, ch - 1))
  IN [x |-> x, y |-> y,
      width |-> clamp(pending.width, 1, Max2(1, cw - x)),
      height |-> clamp(pending.height, 1, Max2(1, ch - y))]

\* handleApplyCrop's catch block: best-effort restore of the selection
CropRollback(s, e, onCanvas) ==
  [s EXCEPT !.objs = IF onCanvas
                     THEN Append(Untag(@, "crop"), e.rect)
                     ELSE Untag(@, "crop"),
            !.refs = [@ EXCEPT !["crop"] = <<e.rect>>],
            !.cropPending = <<e.pending>>]

\* What handleApplyCrop holds across its await: the closed-over pending
\* crop and guide, the rectangle it crops to, and whether the canvas it
\* closed over is still the current one
CropJob(s) ==
  [pending |-> s.cropPending[1],
   rect |-> s.refs["crop"][1],
   area |-> ClampedArea(s.cropPending[1], SurfaceOf(s.container)[1],
                        SurfaceOf(s.container)[2]),
   cur |-> TRUE]

\* handleApplyCrop's guard: if (!fc || !pending || !rect) return
CanApplyCrop(s) == s.cropPending # <<>> /\ s.refs["crop"] # <<>>

\* handleApplyCrop up to its await (exported: fc.toDataURL returned)
handleApplyCrop(s, exported) ==
  IF ~CanApplyCrop(s) THEN s
  ELSE LET e == CropJob(s)
           s1 == RefClear(RefRemove([s EXCEPT !.cropPending = <<>>], "crop"), "crop")
       IN IF exported
          THEN [s1 EXCEPT !.loaded = FALSE, !.cropExport = Append(@, e)]
          ELSE CropRollback(s1, e, TRUE)

\* cropImageToBlob's canvas: Math.max(1, w) by Math.max(1, h)
CropUrl(s, e) == <<s.nextUrl + 1, Max2(1, e.area.width), Max2(1, e.area.height)>>

\* handleApplyCrop after its await resolved
ApplyCropEnd(s, e) ==
  setTool(setWorkingUrl([s EXCEPT !.nextUrl = @ + 1], CropUrl(s, e)), "none")

(***************************************************************************)
(* Rebuild effect: completion of the image decode                          *)
(***************************************************************************)
\* The rebuild effect resetting the history to the new Scene
SeedHistory_reset(s) ==
  [s EXCEPT !.undoStack = <<Snap(s.objs)>>,
            !.redoStack = <<>>,
            !.canUndo = FALSE,
            !.canRedo = FALSE]

\* Initial history snapshot (pushed when there already is history)
SeedHistory(s) ==
  LET snap == Snap(s.objs)
      cur == s.undoStack
      pushed == IF Len(cur) = 0 THEN <<snap>>
                ELSE IF Last(cur) # snap THEN Append(cur, snap) ELSE cur
  IN [s EXCEPT !.undoStack = pushed,
               !.redoStack = <<>>,
               !.canUndo = Len(pushed) > 1,
               !.canRedo = FALSE]

\* The async body of the rebuild effect once the image has been decoded
DecodeDone(s) ==
  LET s1 == AddObj(s, BaseImage(s.workingUrl, SurfaceOf(s.container)))
      s2 == [s1 EXCEPT !.objs = SendToBack(@, "base"),
                       !.loaded = TRUE,
                       !.decode = "none"]
  IN SeedHistory(s2)

(***************************************************************************)
(* Close, reopen, save                                                     *)
(***************************************************************************)
\* onClose(): the parent clears `open`.  The effects that depend on it are
\* cleaned up (the decode in flight is cancelled, the history handlers are
\* taken off the canvas) and return at once; the editor renders nothing.
\* State and refs are kept, the canvas is not disposed.
closeEditor(s) ==
  IF ~s.open THEN s
  ELSE RebuildCleanup([s EXCEPT !.open = FALSE, !.wiredTool = "unwired"])

\* URL.createObjectURL(step.blob) of the open effect
StepUrl(s) == <<s.nextUrl + 1, ImgW0, ImgH0>>

\* The open effect: state and refs reset for the step
OpenEffect(s) ==
  [RefClear(s, "crop") EXCEPT !.imageLoadError = FALSE,
                              !.loaded = FALSE,
                              !.cropPending = <<>>,
                              !.undoStack = <<>>,
                              !.redoStack = <<>>,
                              !.canUndo = FALSE,
                              !.canRedo = FALSE,
                              !.nextUrl = @ + 1]

\* The parent sets `open` again.  First render: the rebuild effect and the
\* tool wiring effect run on the state the editor was closed with, the open
\* effect resets refs and queues its state.  Second render: the working URL
\* and the tool have changed, the two effects run again.
reopenEditor(s) ==
  LET first == ToolWiring(RebuildEffect([s EXCEPT !.open = TRUE]))
  IN setTool(setWorkingUrl(OpenEffect(first), StepUrl(s)), "none")

\* handleSave up to its first await: fc.toDataURL has read the canvas
handleSave(s) == [s EXCEPT !.saves = @ + 1]

\* handleSave calling onClose() without awaiting onSave(blob)
SaveExported_unawaited(s) ==
  closeEditor([s EXCEPT !.saves = @ - 1, !.saving = @ + 1])

\* fetch(dataUrl) and res.blob() have resolved: onSave(blob) is called
SaveExported(s) == [s EXCEPT !.saves = @ - 1, !.saving = @ + 1]

\* handleSave discarding the Scene and the history when it closes the editor
SaveEnd_discard(s) ==
  closeEditor([s EXCEPT !.saving = @ - 1,
                        !.objs = <<>>,
                        !.undoStack = <<>>,
                        !.redoStack = <<>>])

\* onSave(blob) has resolved: onClose()
SaveEnd(s) == closeEditor([s EXCEPT !.saving = @ - 1])

\* The save button is enabled: canSave
CanSave(s) == s.workingUrl # NoUrl

(***************************************************************************)
(* fabric's own pointer handling: selection, transforms, free drawing      *)
(***************************************************************************)
\* The stage and its canvas are rendered
StageShown(s) == ~s.imageLoadError

\* The user moves the active object one unit to the right, or back
Moved(g) == <<IF g[1] % 2 = 0 THEN g[1] + 1 ELSE g[1] - 1, g[2], g[3], g[4]>>

\* fabric reacts to the mouse: the stage handlers have not taken the event
\* and the canvas is not in drawing mode
FabricPointer(s) == StageShown(s) /\ ~StageGuard(s) /\ s.wiredTool # "draw"

\* The handlers the tool wiring effect registered on the current canvas
Wired(s) == s.wiredTool # "unwired"

(***************************************************************************)
(* Keyboard shortcuts (window keydown listener, registered while open)     *)
(***************************************************************************)
Keys == {"Escape", "Undo", "Redo", "Delete"}

\* fc.getActiveObject()?.isEditing
isEditingFabricText(s) == \E i \in 1..Len(s.objs) : s.objs[i].active /\ s.objs[i].editing

HasSelection(s) == \E i \in 1..Len(s.objs) : s.objs[i].active

\* Escape closes the editor whether or not a text object is being edited
onEscape_close(s) == closeEditor(s)

onEscape(s) ==
  IF isEditingFabricText(s) THEN DiscardActive(exitEditing(s)) ELSE closeEditor(s)

\* The shortcuts without the typing guard
onShortcut_unguarded(s, key, field) ==
  CASE key = "Undo"   -> handleUndo(s)
    [] key = "Redo"   -> handleRedo(s)
    [] key = "Delete" -> IF HasSelection(s) THEN removeSelected(s) ELSE s

\* field: the event's target is an input, a textarea, a select or
\* contenteditable (isTypingTarget)
onShortcut(s, key, field) ==
  IF field \/ isEditingFabricText(s) THEN s
  ELSE CASE key = "Undo"   -> handleUndo(s)
         [] key = "Redo"   -> handleRedo(s)
         [] key = "Delete" -> IF HasSelection(s) THEN removeSelected(s) ELSE s

onKeyDown(s, key, field) ==
  IF key = "Escape" THEN onEscape(s) ELSE onShortcut(s, key, field)

(***************************************************************************)
(* Initial states.  Fresh: the editor has been opened on a step; the open  *)
(* effect and the rebuild effect have run and the image decode is in       *)
(* flight.  The other session prefixes are the states the handlers produce *)
(* from it along one editing session; a run starts after any of them.      *)
(***************************************************************************)
Fresh ==
  [open |-> TRUE, saves |-> 0, saving |-> 0, objs |-> <<>>, refs |-> NoRefs, tool |-> "none", wiredTool |-> "unwired",
   undoStack |-> <<>>, redoStack |-> <<>>, canUndo |-> FALSE, canRedo |-> FALSE,
   isRestoring |-> FALSE, restores |-> <<>>, cropPending |-> <<>>,
   workingUrl |-> OrigUrl, skipNextRebuild |-> FALSE, imageLoadError |-> FALSE,
   loaded |-> FALSE, decode |-> "live", staleDecodes |-> 0, cropExport |-> <<>>,
   drawing |-> [rect |-> FALSE, circle |-> FALSE, text |-> FALSE, arrow |-> FALSE],
   dragStart |-> <<0, 0>>, textBoxStart |-> <<0, 0>>, nextUrl |-> 1,
   container |-> NoLayout]

\* Pick tool t and drag from <<4, 10>> to <<10, 4>>
Drag(s, t) ==
  handleStagePointerUp(
    handleStagePointerMove(
      handleStagePointerDown(setTool(s, t), <<4, 10>>), <<10, 4>>))

\* The image has been decoded
Loaded == DecodeDone(Fresh)

\* ... and a rectangle has been drawn
Edited == Drag(Loaded, "rect")

\* ... and a crop has been dragged and is pending
Pending == Drag(Edited, "crop")

\* One round of drawing a rectangle and clearing the annotations
Round == clearAll(Drag(Loaded, "rect"))

\* The history after HistoryCap \div 2 such rounds: the two snapshots of a
\* round alternate, and pushHistory has evicted the initial one
FullHistory ==
  [i \in 1..HistoryCap |-> Round.undoStack[IF i % 2 = 1 THEN 2 ELSE 3]]

\* A long session: the history is full, and a crop is pending
Full == Drag([Round EXCEPT !.undoStack = FullHistory], "crop")

Sessions == {Fresh, Loaded, Edited, Pending, Full}

\* A text has been dragged on the decoded image and is being typed
Typing == Drag(Loaded, "text")

\* ... and a rectangle has been drawn next to it
TypingMore == Drag(Typing, "rect")

\* The editor is in state s and has handled no event yet
Starts(s) ==
  /\ events = 0
  /\ last = "open"
  /\ open = s.open
  /\ saves = s.saves
  /\ saving = s.saving
  /\ objs = s.objs
  /\ refs = s.refs
  /\ tool = s.tool
  /\ wiredTool = s.wiredTool
  /\ undoStack = s.undoStack
  /\ redoStack = s.redoStack
  /\ canUndo = s.canUndo
  /\ canRedo = s.canRedo
  /\ isRestoring = s.isRestoring
  /\ restores = s.restores
  /\ cropPending = s.cropPending
  /\ workingUrl = s.workingUrl
  /\ skipNextRebuild = s.skipNextRebuild
  /\ imageLoadError = s.imageLoadError
  /\ loaded = s.loaded
  /\ decode = s.decode
  /\ staleDecodes = s.staleDecodes
  /\ cropExport = s.cropExport
  /\ drawing = s.drawing
  /\ dragStart = s.dragStart
  /\ textBoxStart = s.textBoxStart
  /\ nextUrl = s.nextUrl
  /\ container = s.container

Init == \E s \in Sessions : Starts(s)

(***************************************************************************)
(* Actions                                                                 *)
(***************************************************************************)
DecodeSuccess ==
  /\ decode = "live"
  /\ Async(DecodeDone(Cur), "DecodeSuccess")

\* Both loaders rejected: the effect's catch sets the error
DecodeFail ==
  /\ decode = "live"
  /\ Async([Cur EXCEPT !.decode = "none", !.imageLoadError = TRUE], "DecodeFail")

\* A cancelled decode resolves (nothing happens) or rejects (the catch runs)
StaleDecodeSettle ==
  /\ staleDecodes > 0
  /\ \E ok \in BOOLEAN :
       Async([Cur EXCEPT !.staleDecodes = @ - 1,
                         !.imageLoadError = IF ok THEN @ ELSE TRUE], "StaleDecodeSettle")

\* A tool button; the crop button cancels a pending crop first
SetTool ==
  /\ Budget
  /\ open
  /\ \E t \in Tools :
       User(setTool(IF t = "crop" THEN handleCancelCrop(Cur) ELSE Cur, t), "SetTool")

\* strokeColor / strokeWidth change: the tool wiring effect runs again
ChangeStroke ==
  /\ Budget
  /\ open
  /\ User(ToolWiring(Cur), "ChangeStroke")

PointerDown ==
  /\ Budget
  /\ open
  /\ StageShown(Cur)
  /\ \E p \in DownPts : User(handleStagePointerDown(Cur, p), "PointerDown")

PointerMove ==
  /\ Budget
  /\ open
  /\ StageShown(Cur)
  /\ \E p \in MovePts : User(handleStagePointerMove(Cur, p), "PointerMove")

PointerUp ==
  /\ Budget
  /\ open
  /\ StageShown(Cur)
  /\ User(handleStagePointerUp(Cur), "PointerUp")

Undo ==
  /\ Budget
  /\ open
  /\ User(handleUndo(Cur), "Undo")

Redo ==
  /\ Budget
  /\ open
  /\ User(handleRedo(Cur), "Redo")

\* The images of a loadFromJSON call have loaded
RestoreComplete ==
  \E i \in 1..Len(restores) :
    LET r == restores[i]
        s == [Cur EXCEPT !.restores = Remove(@, i)]
    IN \/ Async(RestoreCallback(s, r, r.cur), "RestoreComplete")
       \/ /\ ~r.cur       \* fabric throws on the disposed canvas: no callback
          /\ Async(s, "RestoreComplete")

RemoveSelected ==
  /\ Budget
  /\ open
  /\ User(removeSelected(Cur), "RemoveSelected")

ClearAll ==
  /\ Budget
  /\ open
  /\ User(clearAll(Cur), "ClearAll")

CancelCrop ==
  /\ Budget
  /\ open
  /\ StageShown(Cur)
  /\ cropPending # <<>>
  /\ User(handleCancelCrop(Cur), "CancelCrop")

\* The apply button; fc.toDataURL returns or throws
ApplyCrop ==
  /\ Budget
  /\ open
  /\ StageShown(Cur)
  /\ cropPending # <<>>
  /\ \E exported \in BOOLEAN : User(handleApplyCrop(Cur, exported), "ApplyCrop")

CropExportSuccess ==
  \E i \in 1..Len(cropExport) :
    Async(ApplyCropEnd([Cur EXCEPT !.cropExport = Remove(@, i)], cropExport[i]), "CropExportSuccess")

CropExportFail ==
  \E i \in 1..Len(cropExport) :
    LET e == cropExport[i]
        s == [Cur EXCEPT !.cropExport = Remove(@, i)]
    IN \/ Async(CropRollback(s, e, e.cur), "CropExportFail")
       \/ /\ ~e.cur      \* fc.add throws on the disposed canvas
          /\ Async(s, "CropExportFail")

\* A click on a selectable object
Select ==
  /\ Budget
  /\ open
  /\ FabricPointer(Cur)
  /\ \E i \in 1..Len(objs) :
       /\ objs[i].selectable /\ objs[i].evented /\ ~objs[i].active
       /\ User([exitEditing(Cur) EXCEPT
                  !.objs = [k \in 1..Len(@) |-> [@[k] EXCEPT !.active = (k = i)]]], "Select")

\* A click on the empty canvas
Deselect ==
  /\ Budget
  /\ open
  /\ FabricPointer(Cur)
  /\ User(DiscardActive(Cur), "Deselect")

\* A move of the active object; object:modified fires on its completion
Modify ==
  /\ Budget
  /\ open
  /\ FabricPointer(Cur)
  /\ \E i \in 1..Len(objs) :
       /\ objs[i].active /\ objs[i].selectable /\ objs[i].evented /\ ~objs[i].editing
       /\ LET s == SyncRefs([Cur EXCEPT !.objs[i].geom = Moved(@)])
          IN User(IF Wired(s) THEN pushHistory(s) ELSE s, "Modify")

\* A freehand stroke: the active object is discarded when it starts,
\* path:created fires on its completion
DrawPath ==
  /\ Budget
  /\ open
  /\ StageShown(Cur)
  /\ wiredTool = "draw"
  /\ LET s == [DiscardActive(Cur) EXCEPT
                 !.objs = Append(@, Obj("path", "shape", <<0, 0, 4, 4>>, TRUE, NoUrl, ""))]
     IN User(pushHistory(s), "DrawPath")

\* "Fechar", "Cancelar" or the Escape key
Close ==
  /\ Budget
  /\ open
  /\ User(closeEditor(Cur), "Close")

\* The parent opens the editor on the step again
Reopen ==
  /\ Budget
  /\ ~open
  /\ User(reopenEditor(Cur), "Reopen")

\* The save button
Save ==
  /\ Budget
  /\ open
  /\ CanSave(Cur)
  /\ saves + saving < MaxSaves
  /\ User(handleSave(Cur), "Save")

\* The export of a save resolves: the save callback gets the bitmap
SaveExport ==
  /\ saves > 0
  /\ Async(SaveExported(Cur), "SaveExport")

\* The save callback resolves
SaveSettle ==
  /\ saving > 0
  /\ Async(SaveEnd(Cur), "SaveSettle")

\* The export of a save or the save callback rejects: handleSave ends there
SaveFail ==
  \/ /\ saves > 0
     /\ Async([Cur EXCEPT !.saves = @ - 1], "SaveFail")
  \/ /\ saving > 0
     /\ Async([Cur EXCEPT !.saving = @ - 1], "SaveFail")

Next ==
  \/ Close
  \/ Reopen
  \/ Save
  \/ SaveExport
  \/ SaveSettle
  \/ SaveFail
  \/ DecodeSuccess
  \/ DecodeFail
  \/ StaleDecodeSettle
  \/ SetTool
  \/ ChangeStroke
  \/ PointerDown
  \/ PointerMove
  \/ PointerUp
  \/ Undo
  \/ Redo
  \/ RestoreComplete
  \/ RemoveSelected
  \/ ClearAll
  \/ CancelCrop
  \/ ApplyCrop
  \/ CropExportSuccess
  \/ CropExportFail
  \/ Select
  \/ Deselect
  \/ Modify
  \/ DrawPath

Spec == Init /\ [][Next]_vars

(***************************************************************************)
(* The editor whose promises settle: an image decode in flight resolves or *)
(* rejects, so do the export of a crop and the load of a restore.  Nothing *)
(* is assumed of the user.                                                 *)
(***************************************************************************)
Settling ==
  /\ WF_vars(DecodeFail \/ DecodeSuccess)
  /\ WF_vars(StaleDecodeSettle)
  /\ WF_vars(CropExportFail \/ CropExportSuccess)
  /\ WF_vars(RestoreComplete)

LiveSpec == Init /\ [][Next]_vars /\ Settling

(***************************************************************************)
(* The editor with its keyboard, in sessions where a text is being typed   *)
(***************************************************************************)
\* A key goes down while the editor is open.  A shortcut that goes down in
\* a field is the step "KeyInField".
KeyDown ==
  /\ Budget
  /\ open
  /\ \E key \in Keys, field \in BOOLEAN :
       User(onKeyDown(Cur, key, field),
            IF key = "Escape" THEN "Escape"
            ELSE IF field THEN "KeyInField" ELSE "Key" \o key)

KeySessions == {Loaded, Edited, Pending, Typing, TypingMore}

KeyInit == \E s \in KeySessions : Starts(s)

KeyNext == Next \/ KeyDown

KeySpec == KeyInit /\ [][KeyNext]_vars

(***************************************************************************)
(* Sized sessions: the editor opened on images and in containers of many   *)
(* sizes, crop drags that start and end inside and outside the surface,    *)
(* text drags of many widths and heights.                                  *)
(***************************************************************************)
\* Intrinsic sizes of the step's image (fimg.width, fimg.height)
ImageSizes == {0, 1, 320, 800, 1281, 4000} \X {0, 1, 240, 600, 761, 3000}

\* Sizes of the canvas wrapper (clientWidth, clientHeight)
Containers == {NoLayout, <<100, 100>>, <<320, 240>>, <<1000, 500>>, <<1921, 1081>>}

\* Positions fc.getPointer reports on a surface: on the stage's padding left
\* of or above the canvas, inside it, and (the pointer is captured) beyond it
EdgePoints(sf) == {-8, 0, 6, sf[1] - 2, sf[1] + 9} \X {-8, 0, 7, sf[2] + 9}

\* Widths of the text drags
TextDragWidths == {0, 1, 6, 159, 160, 161, 400}

\* The editor opened on an image of size img in a container of size c
FreshWith(img, c) ==
  [Fresh EXCEPT !.workingUrl = <<1, img[1], img[2]>>, !.container = c]

\* Pick tool t, press at p0 and move to p1
DragTo(s, t, p0, p1) ==
  handleStagePointerMove(handleStagePointerDown(setTool(s, t), p0), p1)

SizedInit ==
  \/ \E img \in ImageSizes, c \in Containers : Starts(FreshWith(img, c))
  \/ \E c \in Containers :
       \E p0 \in EdgePoints(SurfaceOf(c)), p1 \in EdgePoints(SurfaceOf(c)) :
         Starts(DragTo(DecodeDone(FreshWith(<<ImgW0, ImgH0>>, c)), "crop", p0, p1))
  \/ \E w \in TextDragWidths, h \in 0..MaxDragH :
       Starts(DragTo(Loaded, "text", <<4, 10>>, <<4 + w, 10 + h>>))
  \/ Starts(handleStagePointerDown(setTool(Loaded, "text"), <<4, 10>>))

SizedNext ==
  \/ DecodeSuccess
  \/ PointerUp
  \/ ApplyCrop
  \/ CropExportSuccess

SizedSpec == SizedInit /\ [][SizedNext]_vars

(***************************************************************************)
(* Vocabulary of the properties                                            *)
(***************************************************************************)
CurNext ==
  [open |-> open', saves |-> saves', saving |-> saving', objs |-> objs', refs |-> refs', tool |-> tool', wiredTool |-> wiredTool',
   undoStack |-> undoStack', redoStack |-> redoStack', canUndo |-> canUndo',
   canRedo |-> canRedo', isRestoring |-> isRestoring', restores |-> restores',
   cropPending |-> cropPending', workingUrl |-> workingUrl',
   skipNextRebuild |-> skipNextRebuild', imageLoadError |-> imageLoadError',
   loaded |-> loaded', decode |-> decode', staleDecodes |-> staleDecodes',
   cropExport |-> cropExport', drawing |-> drawing', dragStart |-> dragStart',
   textBoxStart |-> textBoxStart', nextUrl |-> nextUrl', container |-> container']

\* The steps that request a history commit
CommitNames ==
  {"PointerUp", "RemoveSelected", "ClearAll", "Modify", "DrawPath", "DecodeSuccess"}

\* A commit that pushed a snapshot on a non-empty undo stack
Committed ==
  /\ last' \in CommitNames
  /\ undoStack # <<>>
  /\ undoStack' # undoStack

\* The restore s issued since `before` has completed on its canvas
Restored(s, before) ==
  IF Len(s.restores) > Len(before.restores)
  THEN RestoreCallback([s EXCEPT !.restores = Front(@)], Last(s.restores), TRUE)
  ELSE s

\* undo() / redo() with the restore it starts run to completion
UndoDone(s) == Restored(handleUndo(s), s)
RedoDone(s) == Restored(handleRedo(s), s)

\* A snapshot without its interactivity flags
Flagless(j) ==
  [i \in 1..Len(j) |-> [j[i] EXCEPT !.selectable = FALSE, !.evented = FALSE]]

(***************************************************************************)
(* C1                                                                      *)
(***************************************************************************)
\* The snapshot that was on top of the undo stack before the last commit of
\* the step (a step makes two commits when clear-all removes a text that is
\* being typed)
TopBeforeCommit == undoStack'[Len(undoStack') - 1]

\* C1 as stated: undo() right after a commit makes the Scene structurally
\* equal to the snapshot that was on top before the commit, and redo() right
\* after that undo() makes it equal to the post-commit snapshot and brings
\* both stacks back to their post-commit contents.
C1_UndoRedoExact ==
  [][Committed =>
       \A u \in {UndoDone(CurNext)} : \A r \in {RedoDone(u)} :
         /\ Snap(u.objs) = TopBeforeCommit
         /\ Snap(r.objs) = Last(undoStack')
         /\ r.undoStack = undoStack'
         /\ r.redoStack = redoStack']_vars

\* C1 amended: the same, the Scene being equal to the snapshots up to the
\* selectable / evented flags, which the restore derives from the active tool.
C1_UndoRedoUpToFlags ==
  [][Committed =>
       \A u \in {UndoDone(CurNext)} : \A r \in {RedoDone(u)} :
         /\ Flagless(Snap(u.objs)) = Flagless(TopBeforeCommit)
         /\ Flagless(Snap(r.objs)) = Flagless(Last(undoStack'))
         /\ r.undoStack = undoStack'
         /\ r.redoStack = redoStack']_vars

\* A redo has completed: the Scene is the snapshot a commit pushed and an
\* undo had taken away, with the flags of the tool that is active now
C1_Redone ==
  /\ last = "RestoreComplete"
  /\ redoStack = <<>>
  /\ Len(undoStack) >= 2
  /\ restores = <<>>
  /\ ~isRestoring
  /\ nextUrl = 1
  /\ Flagless(Snap(objs)) = Flagless(Last(undoStack))
  /\ Snap(objs) # Last(undoStack)

(***************************************************************************)
(* C2                                                                      *)
(***************************************************************************)
\* C2: once the base image has been decoded the undo stack holds between 1
\* and 50 snapshots, whatever commits (crop applies included), undos and
\* redos have been made.
C2_HistoryBounded ==
  loaded => Len(undoStack) >= 1 /\ Len(undoStack) <= HistoryCap

(***************************************************************************)
(* C3                                                                      *)
(***************************************************************************)
Images(os) == {i \in 1..Len(os) : os[i].type = "image"}

\* C3: whenever the Scene is loaded it holds exactly one base image, at the
\* bottom of the z-order, neither selectable nor evented.
C3_OneBaseImageAtBottom ==
  loaded => /\ Cardinality(Images(objs)) = 1
            /\ objs[1].type = "image"
            /\ ~objs[1].selectable
            /\ ~objs[1].evented

(***************************************************************************)
(* C4                                                                      *)
(***************************************************************************)
\* The shape a rect, circle or crop drag is drawing, and the drag's extent
DragRef == IF tool = "circle" THEN "circle" ELSE "rect"

DragExtent ==
  LET g == refs[DragRef][1].geom
  IN IF tool = "circle" THEN <<2 * g[3], 2 * g[4]>> ELSE <<g[3], g[4]>>

\* A pointer-up ends a rect, circle or crop drag narrower or lower than 5
SmallDragEnds ==
  /\ last' = "PointerUp"
  /\ tool \in {"rect", "circle", "crop"}
  /\ StageGuard(Cur)
  /\ drawing[DragRef]
  /\ IsTagged(objs, DragRef)
  /\ DragExtent[1] < MinDrag \/ DragExtent[2] < MinDrag

\* C4: such a drag leaves no object, no pending crop and no history entry:
\* the shape being drawn is removed from the Scene.
C4_SmallDragDiscarded ==
  [][SmallDragEnds =>
       /\ Len(objs') = Len(objs) - 1
       /\ cropPending' = <<>>
       /\ undoStack' = undoStack]_vars

(***************************************************************************)
(* C5, C6, C7                                                              *)
(***************************************************************************)
\* The Scene without the crop guide
PreCrop(os) == Untag(SelectSeq(os, LAMBDA o : o.ref # "crop"), "base")

\* The crop button "Aplicar" can be pressed
CropReady(s) == StageShown(s) /\ CanApplyCrop(s)

\* handleApplyCrop run to the end, the export having succeeded
Applied(s) ==
  LET a == handleApplyCrop(s, TRUE)
  IN ApplyCropEnd([a EXCEPT !.cropExport = Front(@)], Last(a.cropExport))

\* C5: from a pending crop, when the apply and the rebuild it starts have
\* completed, one undo() brings back the Scene of before the crop: as many
\* objects, on the base image of before the crop.
C5_UndoRestoresPreCrop ==
  (CropReady(Cur) /\ loaded /\ Applied(Cur).decode = "live" /\ restores = <<>> /\ ~isRestoring) =>
    LET pre == PreCrop(objs)
        d == UndoDone(DecodeDone(Applied(Cur)))
    IN /\ Len(d.objs) = Len(pre)
       /\ Len(pre) >= 1
       /\ Ser(d.objs[1]) = Ser(pre[1])

\* C6: when the export of a crop apply has succeeded the Scene is rebuilt for
\* the new working image: the decode is started, and when it completes the
\* Scene is the cropped bitmap alone, as the base image, and the loading
\* flag is cleared.
C6_CropRebuilds ==
  [][last' = "CropExportSuccess" =>
       /\ decode' = "live"
       /\ LET d == DecodeDone(CurNext)
          IN /\ d.objs = <<BaseImage(workingUrl', SurfaceOf(container'))>>
             /\ workingUrl'[1] = nextUrl'
             /\ d.loaded]_vars

\* The decode that completes is the one of a cropped image
CropDecoded == last' = "DecodeSuccess" /\ workingUrl[1] > 1

SnapshotLast == {"RemoveSelected", "ClearAll", "Modify", "DrawPath", "DecodeSuccess"}

\* C8: a commit requested when the snapshot of the Scene is identical to the
\* top of the undo stack pushes nothing and leaves both stacks as they are.
C8_DuplicateDropped ==
  [][(/\ last' \in SnapshotLast
      /\ undoStack # <<>>
      /\ Snap(objs') = Last(undoStack)) =>
       /\ undoStack' = undoStack
       /\ redoStack' = redoStack]_vars

\* No shape is being drawn with the active tool
NothingInProgress ==
  /\ StageGuard(Cur)
  /\ \A k \in {"rect", "circle", "text", "arrow"} : ~drawing[k]
  /\ \A t \in RefNames \ {"base", "crop"} : refs[t] = <<>>

\* An edit that changes no object of the Scene: remove-selected with nothing
\* selected, clear-all with no annotation, pointer-up with no shape in progress
NoOpEdit ==
  /\ loaded
  /\ cropPending = <<>>
  /\ \/ last' = "RemoveSelected" /\ \A i \in 1..Len(objs) : ~objs[i].active
     \/ last' = "ClearAll" /\ \A i \in 1..Len(objs) : objs[i].ref = "base"
     \/ last' = "PointerUp" /\ NothingInProgress /\ tool # "text"

\* C9: such an edit neither grows the undo stack nor clears the redo stack.
C9_NoOpEditKeepsHistory ==
  [][NoOpEdit =>
       /\ Len(undoStack') <= Len(undoStack)
       /\ redoStack' = redoStack]_vars

\* C10: a commit that pushes a snapshot empties the redo stack; undo() moves
\* exactly the snapshot it pops onto the redo stack, redo() takes exactly
\* one snapshot off it, and the restores they start leave it alone.
C10_RedoDiscipline ==
  [][/\ (last' \in CommitNames /\ undoStack' # undoStack) => redoStack' = <<>>
     /\ (last' = "Undo" /\ Len(undoStack) > 1) =>
          redoStack' = Append(redoStack, Last(undoStack))
     /\ (last' = "Undo" /\ Len(undoStack) <= 1) => redoStack' = redoStack
     /\ (last' = "Redo" /\ redoStack # <<>>) => redoStack' = Front(redoStack)
     /\ last' = "RestoreComplete" => redoStack' = redoStack]_vars

\* clear-all has requested a commit of a Scene identical to the top snapshot
\* while there was something to redo: nothing was pushed, the redo stack is
\* still there
C8_DuplicateSeen ==
  /\ last = "ClearAll"
  /\ ~isRestoring
  /\ redoStack # <<>>
  /\ undoStack # <<>>
  /\ Snap(objs) = Last(undoStack)

\* Two undos and one redo have been made on a history no commit has touched
C10_UndoneTwiceRedoneOnce ==
  /\ last = "Redo"
  /\ Len(redoStack) = 1
  /\ Len(undoStack) = HistoryCap - 1
  /\ undoStack \o <<redoStack[1]>> = FullHistory

(***************************************************************************)
(* C11                                                                     *)
(***************************************************************************)
\* undo() with at most one snapshot on the undo stack, redo() with none on
\* the redo stack
NothingToUndo == last' = "Undo" /\ Len(undoStack) <= 1
NothingToRedo == last' = "Redo" /\ redoStack = <<>>

\* C11: undo() on an undo stack of at most one entry and redo() on an empty
\* redo stack change nothing: the Scene, both stacks, the undo / redo
\* availability and the error state stay as they are, no restore is started.
C11_NothingToUndoOrRedo ==
  [][(NothingToUndo \/ NothingToRedo) =>
       /\ objs' = objs
       /\ undoStack' = undoStack
       /\ redoStack' = redoStack
       /\ canUndo' = canUndo
       /\ canRedo' = canRedo
       /\ imageLoadError' = imageLoadError
       /\ restores' = restores
       /\ isRestoring' = isRestoring
       /\ workingUrl' = workingUrl]_vars

\* undo() has been called on the lone baseline snapshot of a loaded Scene:
\* the snapshot is still there and is still the Scene's
C11_UndoneOnBaseline ==
  /\ last = "Undo"
  /\ loaded
  /\ Len(undoStack) = 1
  /\ redoStack = <<>>
  /\ ~isRestoring
  /\ restores = <<>>
  /\ undoStack[1] = Snap(objs)

(***************************************************************************)
(* C12                                                                     *)
(***************************************************************************)
\* The callback of a restore runs on the current canvas in this step: that
\* of a loadFromJSON call whose images have loaded, or synchronously within
\* undo() / redo() for a snapshot without images
RestoreCompletes ==
  \/ last' = "RestoreComplete" /\ \A i \in 1..Len(restores) : restores[i].cur
  \/ /\ last' \in {"Undo", "Redo"}
     /\ undoStack' # undoStack
     /\ restores' = restores

\* C12: when the restore of an undo or a redo completes, every object of the
\* Scene but the base image is selectable and evented exactly when the tool
\* active at that moment is select.
C12_RestoredFlagsFollowTool ==
  [][RestoreCompletes =>
       \A i \in 1..Len(objs') :
         objs'[i].ref # "base" =>
           /\ objs'[i].selectable = (tool' = "select")
           /\ objs'[i].evented = (tool' = "select")]_vars

(***************************************************************************)
(* C13                                                                     *)
(***************************************************************************)
\* The tool a transient object was created by at pointer-down
ToolOfTransient(o) ==
  IF o.ref = "rect" THEN (IF o.style = "cropGuide" THEN "crop" ELSE "rect")
  ELSE IF o.ref = "circle" THEN "circle"
  ELSE IF o.ref = "guide" THEN "text"
  ELSE "arrow"

\* The transient objects of the Scene whose drag was started with another
\* tool than the active one
StaleTransients ==
  {i \in 1..Len(objs) :
     /\ objs[i].ref \in {"rect", "circle", "guide", "line", "head"}
     /\ ToolOfTransient(objs[i]) # tool}

\* C13: when the tool was changed between pointer-down and pointer-up, the
\* drag is abandoned: after the pointer-up the transient object is out of the
\* Scene, nothing has been promoted and no commit has been made.
C13_ToolChangeAbandonsDrag ==
  [][(last' = "PointerUp" /\ loaded /\ StaleTransients # {}) =>
       /\ Len(objs') = Len(objs) - Cardinality(StaleTransients)
       /\ \A i \in 1..Len(objs') : ~(objs'[i].selectable /\ ~objs[i].selectable)
       /\ undoStack' = undoStack]_vars

(***************************************************************************)
(* C14                                                                     *)
(***************************************************************************)
\* The persistent rectangles of a Scene: those no drag is drawing
Rectangles(os) ==
  {i \in 1..Len(os) : os[i].type = "rect" /\ os[i].style = "shape" /\ os[i].ref = ""}

\* A pointer-up at p ends a drag that the rect tool started and that spans
\* 5 units or more in both directions (the handler does not read the
\* pointer's position: the step is the same for every p)
RectDragEndsAt(p) ==
  /\ last' = "PointerUp"
  /\ tool = "rect"
  /\ cropPending = <<>>
  /\ drawing.rect
  /\ IsTagged(objs, "rect")
  /\ ToolOfTransient(TaggedObj(objs, "rect")) = "rect"
  /\ Abs(p[1] - dragStart[1]) >= MinDrag
  /\ Abs(p[2] - dragStart[2]) >= MinDrag

\* The Scene has gained one persistent rectangle, spanned by the drag origin
\* and p
RectPlaced(p) ==
  LET k == CHOOSE i \in 1..Len(objs) : objs[i].ref = "rect"
  IN /\ Len(objs') = Len(objs)
     /\ Rectangles(objs') = Rectangles(objs) \cup {k}
     /\ objs'[k].geom = <<Min2(dragStart[1], p[1]), Min2(dragStart[2], p[2]),
                          Abs(p[1] - dragStart[1]), Abs(p[2] - dragStart[2])>>

TrackedTo(p) ==
  TaggedObj(objs, "rect").geom =
    <<Min2(dragStart[1], p[1]), Min2(dragStart[2], p[2]),
      Abs(p[1] - dragStart[1]), Abs(p[2] - dragStart[2])>>

IsCropGuide(o) == o.type = "rect" /\ o.style = "cropGuide"

\* C15: cancelling a pending crop takes the guide rectangle out of the Scene
\* and clears the pending crop; the other objects, both stacks and the
\* working image are as before, no decode is started (no restore and no crop
\* export being in flight).
C15_CancelCropFrame ==
  [][(last' = "CancelCrop" /\ restores = <<>> /\ cropExport = <<>>) =>
       /\ cropPending' = <<>>
       /\ objs' = SelectSeq(objs, LAMBDA o : ~IsCropGuide(o))
       /\ undoStack' = undoStack
       /\ redoStack' = redoStack
       /\ workingUrl' = workingUrl
       /\ decode' = decode
       /\ loaded' = loaded]_vars

(***************************************************************************)
(* C16                                                                     *)
(***************************************************************************)
\* handleApplyCrop run to the end, fc.toDataURL having thrown
RasterFailed(s) == handleApplyCrop(s, FALSE)

\* handleApplyCrop run to the end, cropImageToBlob having rejected
ExportFailed(s) ==
  LET a == handleApplyCrop(s, TRUE)
  IN CropRollback([a EXCEPT !.cropExport = Front(@)], Last(a.cropExport), TRUE)

\* The part of the editor state a failed crop apply has to give back
CropFrame(s) ==
  <<Snap(s.objs), s.cropPending, s.refs["crop"], s.workingUrl, s.undoStack,
    s.redoStack, s.loaded, s.imageLoadError>>

\* C16: from a pending crop on a loaded Scene, a crop apply whose
\* rasterization or bitmap export fails leaves the editor as it was before
\* the attempt: guide rectangle in the Scene, pending crop, working image,
\* both stacks, loading flag and error state.
C16_FailedCropRollsBack ==
  (CropReady(Cur) /\ loaded /\ IsTagged(objs, "crop")) =>
    /\ CropFrame(RasterFailed(Cur)) = CropFrame(Cur)
    /\ CropFrame(ExportFailed(Cur)) = CropFrame(Cur)

(***************************************************************************)
(* C17                                                                     *)
(***************************************************************************)
DrawingTools == {"draw", "rect", "circle", "arrow", "text"}

\* C17: while a crop is pending no drawing tool (draw, rect, circle, arrow,
\* text) is the active tool.
C17_PendingCropExcludesDrawing ==
  cropPending # <<>> => tool \notin DrawingTools

(***************************************************************************)
(* C18                                                                     *)
(***************************************************************************)
\* The decode of the rebuild effect is in flight: the loading flag is set
\* and the base image is not placed yet
RebuildInFlight == decode = "live" /\ ~loaded /\ ~IsTagged(objs, "base")

\* C18: while a decode is in flight, a pointer-down, pointer-move or
\* pointer-up on the stage changes neither the Scene nor a history stack.
C18_NoPointerInputWhileLoading ==
  [][(last' \in {"PointerDown", "PointerMove", "PointerUp"} /\ RebuildInFlight) =>
       /\ objs' = objs
       /\ undoStack' = undoStack
       /\ redoStack' = redoStack]_vars

(***************************************************************************)
(* C19                                                                     *)
(***************************************************************************)
\* A decode or a crop export settles while the editor is closed: it was in
\* flight when the editor was closed
SettlesAfterClose ==
  /\ ~open
  /\ last' \in {"StaleDecodeSettle", "CropExportSuccess", "CropExportFail"}

\* C19: a decode or crop export that settles after the editor has been
\* closed, with success or with failure, changes nothing of the editor:
\* working image, error state, loading flag, tool, pending crop, Scene and
\* both history stacks are as they were.
C19_LateCompletionIgnored ==
  [][SettlesAfterClose =>
       /\ workingUrl' = workingUrl
       /\ imageLoadError' = imageLoadError
       /\ loaded' = loaded
       /\ cropPending' = cropPending
       /\ objs' = objs
       /\ undoStack' = undoStack
       /\ redoStack' = redoStack]_vars

(***************************************************************************)
(* C20                                                                     *)
(***************************************************************************)
\* C20: a save, from the press of the save button to the close that ends it,
\* leaves the objects of the Scene, the pending crop and both history stacks
\* as they are.
C20_SaveIsReadOnly ==
  [][last' \in {"Save", "SaveExport", "SaveSettle", "SaveFail"} =>
       /\ objs' = objs
       /\ refs' = refs
       /\ cropPending' = cropPending
       /\ undoStack' = undoStack
       /\ redoStack' = redoStack]_vars

\* A Scene with an annotation and a pending crop has been saved: the editor
\* is closed, the Scene and the history are still those of the session
C20_Saved ==
  /\ last = "SaveSettle"
  /\ ~open
  /\ saves = 0
  /\ saving = 0
  /\ cropPending # <<>>
  /\ Len(objs) = 3
  /\ IsTagged(objs, "crop")
  /\ Len(undoStack) = 2
  /\ Flagless(undoStack[2]) = Flagless(Snap(Front(objs)))

(***************************************************************************)
(* C21                                                                     *)
(***************************************************************************)
\* The editor is closed in this step, and not by the close button or Escape
ClosedBySave == open /\ ~open' /\ last' \notin {"Close", "Escape"}

\* C21: a save closes the editor only when the save callback, called with
\* the exported bitmap, has resolved: the step that closes is the resolution
\* of a pending onSave(blob) call; pressing save, the export handing the
\* bitmap to the callback, and a failure of either do not close the editor.
C21_CloseAwaitsSave ==
  [][/\ ClosedBySave => (last' = "SaveSettle" /\ saving > 0 /\ saving' = saving - 1)
     /\ last' \in {"Save", "SaveExport", "SaveFail"} => open' = open]_vars

\* Of two saves, the callback of one has resolved and closed the editor; the
\* other callback is still pending
C21_ClosedByFirstSave ==
  /\ last = "SaveSettle"
  /\ ~open
  /\ saves = 0
  /\ saving = 1

(***************************************************************************)
(* C22                                                                     *)
(***************************************************************************)
\* C22: when a decode completes, the base image is placed on the surface
\* with scale = min(surfaceW / imageW, surfaceH / imageH, 2); scaled, it fits
\* inside the surface at its position; both offsets are non-negative and are
\* half of the leftover space, rounded; a rebuild for the same image and
\* surface places it the same way.  (Image sizes as the code reads them: a
\* dimension of 0 counts as 1.)
C22_FitAndCentre ==
  last = "DecodeSuccess" =>
    LET sf == SurfaceOf(container)
        iw == Dim(workingUrl[2])
        ih == Dim(workingUrl[3])
        g == TaggedObj(objs, "base").geom
        n == g[5][1]
        d == g[5][2]
        leftX == sf[1] * d - iw * n
        leftY == sf[2] * d - ih * n
    IN /\ sf[1] >= MinCanvasW /\ sf[2] >= MinCanvasH
       /\ d > 0 /\ n > 0
       /\ n * iw <= sf[1] * d /\ n * ih <= sf[2] * d /\ n <= MaxScale * d
       /\ n * iw = sf[1] * d \/ n * ih = sf[2] * d \/ n = MaxScale * d
       /\ g[1] >= 0 /\ g[2] >= 0
       /\ g[1] * d + iw * n <= sf[1] * d
       /\ g[2] * d + ih * n <= sf[2] * d
       /\ 2 * d * g[1] - leftX > -d /\ 2 * d * g[1] - leftX <= d
       /\ 2 * d * g[2] - leftY > -d /\ 2 * d * g[2] - leftY <= d
       /\ g = BaseImage(workingUrl, sf).geom

\* A 4000 x 3000 image has been placed on the 1280 x 760 surface: scaled by
\* 760 / 3000 it is 1013.3 wide, the 266.7 left over put it at x = 133
C22_LargeImagePlaced ==
  /\ last = "DecodeSuccess"
  /\ loaded
  /\ container = NoLayout
  /\ workingUrl = <<1, 4000, 3000>>
  /\ objs = <<BaseImage(workingUrl, <<CanvasW, CanvasH>>)>>
  /\ objs[1].geom = <<133, 0, 4000, 3000, <<760, 3000>>>>

(***************************************************************************)
(* C23                                                                     *)
(***************************************************************************)
\* Rectangle a lies inside the rectangle <<x, y, w, h>>
Within(a, x, y, w, h) ==
  /\ a.x >= x /\ a.y >= y
  /\ a.x + a.width <= x + w
  /\ a.y + a.height <= y + h

\* "Aplicar" has been pressed and the Scene rasterized: the crop is started
CropStarted == last' = "ApplyCrop" /\ Len(cropExport') > Len(cropExport)

\* C23: the rectangle a crop apply crops to lies inside the surface, is at
\* least 1 x 1 and is contained in the pending rectangle; a pending rectangle
\* inside the surface is used unchanged; the cropped bitmap, the new base
\* image, has the rectangle's width and height.
C23_CropWithinPending ==
  [][CropStarted =>
       LET e == Last(cropExport')
           a == e.area
           p == cropPending[1]
           sf == SurfaceOf(container)
       IN /\ Within(a, 0, 0, sf[1], sf[2])
          /\ a.width >= 1 /\ a.height >= 1
          /\ Within(a, p.x, p.y, p.width, p.height)
          /\ Within(p, 0, 0, sf[1], sf[2]) => a = p
          /\ CropUrl(CurNext, e)[2] = a.width
          /\ CropUrl(CurNext, e)[3] = a.height]_vars

(***************************************************************************)
(* C28                                                                     *)
(***************************************************************************)
\* A pointer-up ends a drag of the text tool: its guide is in the Scene
TextDragEnds ==
  /\ last' = "PointerUp"
  /\ tool = "text"
  /\ cropPending = <<>>
  /\ drawing.text
  /\ IsTagged(objs, "guide")
  /\ refs["guide"] = <<TaggedObj(objs, "guide")>>

\* The dragged width and height: those of the guide
DraggedWidth == TaggedObj(objs, "guide").geom[3]
DraggedHeight == TaggedObj(objs, "guide").geom[4]

\* The guide is out of the Scene, which has gained one text object at the
\* guide's position, of the given width and font size
TextPlaced(width, fontSize) ==
  LET g == TaggedObj(objs, "guide").geom
  IN /\ ~IsTagged(objs', "guide")
     /\ refs'["guide"] = <<>>
     /\ Len(objs') = Len(objs)
     /\ Snap(Front(objs')) = Snap(SelectSeq(objs, LAMBDA o : o.ref # "guide"))
     /\ Last(objs').type = "textbox"
     /\ Last(objs').geom = <<g[1], g[2], width, fontSize>>

\* C28 as stated: the text object is max(160, w) wide and its font size is
\* clamp(h, 14, 120) when h is not zero, and 28 when it is.
C28_TextFromDrag ==
  [][TextDragEnds =>
       TextPlaced(Max2(MinTextWidth, DraggedWidth),
                  IF DraggedHeight # 0
                  THEN clamp(DraggedHeight, MinFont, MaxFont)
                  ELSE DefaultFont)]_vars

\* C28 amended: the font size is clamp(h, 14, 120) when h is more than 6,
\* and 28 when it is 6 or less.
C28_TextFromDragOver6 ==
  [][TextDragEnds =>
       TextPlaced(Max2(MinTextWidth, DraggedWidth),
                  IF DraggedHeight > TinyDrag
                  THEN clamp(DraggedHeight, MinFont, MaxFont)
                  ELSE DefaultFont)]_vars

\* A text drag 400 wide and 125 high has ended: the text object is 400 wide,
\* its font size is capped at 120
C28_TallTextPlaced ==
  /\ last = "PointerUp"
  /\ tool = "none"
  /\ Len(objs) = 2
  /\ refs["guide"] = <<>>
  /\ Last(objs).type = "textbox"
  /\ Last(objs).geom = <<4, 10, 400, MaxFont>>
  /\ Last(undoStack) = Snap(<<objs[1], Promote(objs[2])>>)

(***************************************************************************)
(* C24                                                                     *)
(***************************************************************************)
\* The number of objects of os that are the base image
Bases(os) == Cardinality({i \in 1..Len(os) : os[i].ref = "base"})

\* The number of selected objects of os that are not the base image
SelectedCount(os) ==
  Cardinality({i \in 1..Len(os) : os[i].active /\ os[i].ref # "base"})

\* Delete or Backspace goes down outside a field, with a selection and no
\* text object in edit mode
DeleteKey ==
  /\ last' = "KeyDelete"
  /\ HasSelection(Cur)
  /\ ~IsEditing(objs)

\* C24: with a non-empty selection and no typing context, Delete or
\* Backspace removes every selected non-base object from the Scene, never
\* removes the base image, clears the selection and pushes one history
\* commit.
C24_DeleteCommits ==
  [][DeleteKey =>
       /\ Len(objs') = Len(objs) - SelectedCount(objs)
       /\ Bases(objs') = Bases(objs)
       /\ ~HasSelection(CurNext)
       /\ undoStack' # undoStack
       /\ Last(undoStack') = Snap(objs')
       /\ Len(undoStack') <= Len(undoStack) + 1]_vars

(***************************************************************************)
(* C25                                                                     *)
(***************************************************************************)
\* C25: clear-all leaves a Scene whose only object is the base image and
\* adds at most one entry to the undo stack.
C25_ClearAllOneCommit ==
  [][last' = "ClearAll" =>
       /\ Len(objs') = 1
       /\ objs'[1].ref = "base"
       /\ Len(undoStack') <= Len(undoStack) + 1]_vars

(***************************************************************************)
(* C26                                                                     *)
(***************************************************************************)
\* C26: Escape pressed while a text object is in edit mode only exits edit
\* mode and does not close the editor; Escape pressed in any other state
\* closes the editor.
C26_EscapeExitsOrCloses ==
  [][last' = "Escape" =>
       IF IsEditing(objs)
       THEN /\ open'
            /\ ~IsEditing(objs')
            /\ Len(objs') = Len(objs)
       ELSE ~open']_vars

\* Escape has ended the typing of a text: the editor is open, the text is in
\* the Scene, out of edit mode
C26_TypingEnded ==
  /\ last = "Escape"
  /\ open
  /\ \E i \in 1..Len(objs) : objs[i].type = "textbox"
  /\ ~IsEditing(objs)
  /\ ~HasSelection(Cur)

(***************************************************************************)
(* C27                                                                     *)
(***************************************************************************)
\* The undo, redo or Delete/Backspace shortcut goes down in a field, or
\* while a text object is in edit mode
ShortcutWhileTyping ==
  \/ last' = "KeyInField"
  \/ last' \in {"KeyUndo", "KeyRedo", "KeyDelete"} /\ IsEditing(objs)

\* C27: while a text field has focus or a text object is in edit mode, the
\* undo, redo and Delete/Backspace shortcuts leave the Scene and both
\* history stacks unchanged.
C27_TypingGuard ==
  [][ShortcutWhileTyping =>
       /\ objs' = objs
       /\ undoStack' = undoStack
       /\ redoStack' = redoStack
       /\ restores' = restores]_vars

\* Ctrl+Z went down while a text was being typed, with a snapshot to go back
\* to: the text is still being typed
C27_UndoKeySuppressed ==
  /\ last = "KeyUndo"
  /\ IsEditing(objs)
  /\ HasSelection(Cur)
  /\ Len(undoStack) >= 2
  /\ restores = <<>>

(***************************************************************************)
(* C29                                                                     *)
(***************************************************************************)
\* C29: once a decode has failed the editor stays in the load-error state
\* through every later operation until it is closed and reopened, and the
\* failed decode pushes no history snapshot.
C29_LoadErrorPersists ==
  [][/\ (imageLoadError /\ last' # "Reopen" => imageLoadError')
     /\ (last' = "DecodeFail" =>
           /\ imageLoadError'
           /\ undoStack' = undoStack
           /\ redoStack' = redoStack)]_vars

\* The decode of a cropped bitmap has failed, and the error is still shown
\* after an undo
C29_ErrorAfterCropAndUndo ==
  /\ last = "Undo"
  /\ open
  /\ imageLoadError
  /\ workingUrl[1] > 1
  /\ redoStack # <<>>

(***************************************************************************)
(* C30                                                                     *)
(***************************************************************************)
\* The editor is open and shows its loading overlay
Loading == open /\ ~loaded /\ ~imageLoadError

\* C30: the editor never stays stuck in loading: from every state in which
\* the loading flag is set, it eventually reaches a state where the Scene
\* is loaded with the flag cleared, or the load error is shown (or the
\* editor has been closed).
C30_NeverStuckLoading == Loading ~> (loaded \/ imageLoadError \/ ~open)

(***************************************************************************)
(* C31                                                                     *)
(***************************************************************************)
\* C31: every freehand stroke completed with the draw tool, and every move
\* completed with the select tool, leads to a history commit: the snapshot
\* of the Scene it leaves is pushed on the undo stack.
C31_EditLeadsToCommit ==
  [][last' \in {"DrawPath", "Modify"} =>
       /\ undoStack' # undoStack
       /\ Last(undoStack') = Snap(objs')]_vars

(***************************************************************************)
(* C32                                                                     *)
(***************************************************************************)
\* Every object of the Scene but the base image has both flags equal to b
NonBaseFlags(b) ==
  \A i \in 1..Len(objs) :
    objs[i].ref # "base" => objs[i].selectable = b /\ objs[i].evented = b

\* C32: in every state with no restore in flight and no text object in edit
\* mode, with the tool none every non-base object is non-selectable and
\* non-evented, and with the tool select every non-base object is selectable
\* and evented.
C32_FlagsFollowTool ==
  (open /\ ~isRestoring /\ restores = <<>> /\ ~IsEditing(objs)) =>
    /\ tool = "none" => NonBaseFlags(FALSE)
    /\ tool = "select" => NonBaseFlags(TRUE)

(***************************************************************************)
(* C33                                                                     *)
(***************************************************************************)
\* The snapshot j describes a Scene with exactly one image, its first object
OneBaseFirst(j) ==
  /\ Len(j) >= 1
  /\ j[1].type = "image"
  /\ Cardinality(Images(j)) = 1

\* C33: every snapshot held in the undo stack or the redo stack describes a
\* Scene with exactly one base image as its first object; no commit made
\* before the base image has finished decoding enters the history.
C33_SnapshotsHoldBase ==
  /\ \A i \in 1..Len(undoStack) : OneBaseFirst(undoStack[i])
  /\ \A i \in 1..Len(redoStack) : OneBaseFirst(redoStack[i])

(***************************************************************************)
(* C34                                                                     *)
(***************************************************************************)
Reverse(q) == [i \in 1..Len(q) |-> q[Len(q) + 1 - i]]

\* The linear history: the undo stack followed by the reversed redo stack
Timeline(u, r) == u \o Reverse(r)

\* C34: undo and redo preserve the linear history: the undo stack followed
\* by the reversed redo stack is unchanged by every undo and every redo (and
\* by the completion of their restores), so that the sum of the two lengths
\* is constant and no snapshot is lost or duplicated.
C34_UndoRedoKeepTimeline ==
  [][last' \in {"Undo", "Redo", "RestoreComplete"} =>
       Timeline(undoStack', redoStack') = Timeline(undoStack, redoStack)]_vars

\* Two undos and a redo have been made on a history of three snapshots or
\* more: both stacks are non-empty
C34_MovedBackAndForth ==
  /\ last = "Redo"
  /\ Len(undoStack) >= 2
  /\ Len(redoStack) >= 1
  /\ Len(undoStack) + Len(redoStack) >= 3

(***************************************************************************)
(* C35                                                                     *)
(***************************************************************************)
\* The snapshot j holds a guide rectangle (of a crop or of a text drag)
HoldsGuide(j) == \E i \in 1..Len(j) : j[i].style \in {"cropGuide", "textGuide"}

\* An object of the Scene is transient: a guide, or a shape a ref still
\* tracks (a drag in progress)
HasTransient(os) == \E i \in 1..Len(os) : os[i].ref \notin {"", "base"}

\* C35: no snapshot in the undo or the redo stack ever contains a transient
\* object: no stack holds a snapshot with a guide, and no snapshot is pushed
\* of a Scene that holds a guide or a shape still being dragged.
C35_NoTransientInHistory ==
  [][/\ \A i \in 1..Len(undoStack') : ~HoldsGuide(undoStack'[i])
     /\ \A i \in 1..Len(redoStack') : ~HoldsGuide(redoStack'[i])
     /\ (undoStack' # undoStack /\ Len(undoStack') > 0
           /\ Last(undoStack') = Snap(objs') /\ last' \notin {"Undo", "Redo"})
          => ~HasTransient(objs')]_vars

(***************************************************************************)
(* C36                                                                     *)
(***************************************************************************)
\* The crop guide rectangle the ref points to is an object of the Scene
GuideInScene == refs["crop"] # <<>> /\ IsTagged(objs, "crop")

\* Some crop guide rectangle is an object of the Scene
SomeGuideInScene == \E i \in 1..Len(objs) : IsCropGuide(objs[i])

\* C36: the pending crop is non-null exactly when the crop guide rectangle
\* it refers to is an object of the Scene: no pending crop without its
\* guide, no guide without its pending crop.
C36_PendingIffGuide ==
  /\ cropPending # <<>> => GuideInScene
  /\ cropPending = <<>> /\ tool # "crop" => ~SomeGuideInScene

(***************************************************************************)
(* C37                                                                     *)
(***************************************************************************)
\* The steps that request commits and nothing else of the history
CommitOnly ==
  last' \in {"PointerUp", "RemoveSelected", "ClearAll", "Modify", "DrawPath",
            "Select", "Deselect"}

\* A restore is in flight on the canvas that is shown
RestoreInFlight ==
  restores # <<>> /\ \A i \in 1..Len(restores) : restores[i].cur

\* C37: a commit requested while the restore of an undo or a redo is in
\* flight changes neither stack, and the restoring flag is cleared once the
\* restore completes.
C37_RestoreShieldsHistory ==
  [][/\ (CommitOnly /\ RestoreInFlight) =>
          undoStack' = undoStack /\ redoStack' = redoStack
     /\ (last' = "RestoreComplete" /\ RestoreInFlight /\ Len(restores) = 1) =>
          ~isRestoring']_vars

(***************************************************************************)
(* C38                                                                     *)
(***************************************************************************)
\* C38: whenever no restore is in flight, the undo button is enabled exactly
\* when the undo stack holds more than one entry and the redo button exactly
\* when the redo stack is non-empty.
C38_ButtonsFollowStacks ==
  (open /\ ~isRestoring /\ restores = <<>>) =>
    /\ canUndo = (Len(undoStack) > 1)
    /\ canRedo = (Len(redoStack) > 0)

\* An undo has been restored: the redo button is enabled, the undo button is
\* disabled at the bottom of the history
C38_UndoneToBottom ==
  /\ open /\ ~isRestoring /\ restores = <<>>
  /\ last = "RestoreComplete"
  /\ Len(undoStack) = 1 /\ Len(redoStack) > 0
  /\ ~canUndo /\ canRedo

(***************************************************************************)
(* C39                                                                     *)
(***************************************************************************)
\* The pointer-up is handled: it passes the guards of handleStagePointerUp
UpHandled == last' = "PointerUp" /\ StageGuard(Cur)

\* The objects the pointer-up promotes: the shape of the drag, the new textbox
PromotedAt(i) ==
  \/ tool \in {"rect", "circle"} /\ i <= Len(objs) /\ objs[i].ref = tool
  \/ tool = "arrow" /\ i <= Len(objs) /\ objs[i].ref \in {"line", "head"}
  \/ tool = "text" /\ refs["guide"] # <<>> /\ i = Len(objs')

\* C39: every handled pointer-up with the tool arrow, rect, circle, text or
\* crop leaves the tool none, the draw and select tools stay active over
\* their gestures, and the shape promoted at the pointer-up is
\* non-selectable once the tool change has taken effect.
C39_OneShotTools ==
  [][/\ UpHandled =>
          /\ tool' = "none"
          /\ \A i \in 1..Len(objs') :
               PromotedAt(i) => ~objs'[i].selectable /\ objs'[i].type # "image"
     /\ last' \in {"DrawPath", "Modify"} => tool' = tool]_vars

\* A dragged rectangle has been promoted and the tool is none again
C39_ShapeDone ==
  /\ last = "PointerUp"
  /\ tool = "none"
  /\ Len(objs) >= 2
  /\ objs[Len(objs)].type = "rect" /\ objs[Len(objs)].ref = ""
  /\ objs[Len(objs)].style = "shape" /\ ~objs[Len(objs)].selectable
  /\ Len(undoStack) > 1 /\ Len(Last(undoStack)) = Len(objs)
  /\ Last(undoStack)[Len(objs)].selectable
  /\ Last(undoStack)[Len(objs)].geom = objs[Len(objs)].geom

====
